---- MODULE Spec2Model ----
(***************************************************************************)
(* A model of the claim normalisation pipeline of normalizer.py: the       *)
(* keyword gates, the JSON helpers, the three oracle-backed stages and the *)
(* record construction of schema.py.                                       *)
(*                                                                         *)
(* A Python str is a sequence of one-character strings.  A Python value    *)
(* (what json.loads returns, what a record field holds) is a tagged        *)
(* record: [t |-> "str", s |-> chars], [t |-> "int", n |-> Int],           *)
(* [t |-> "float", f |-> name], [t |-> "bool", b |-> BOOLEAN],             *)
(* [t |-> "null"], [t |-> "arr", a |-> sequence of values],                *)
(* [t |-> "obj", m |-> function from key (chars) to value].                *)
(***************************************************************************)
EXTENDS Integers, Sequences, FiniteSets, TLC

(***************************************************************************)
(* Python values                                                           *)
(***************************************************************************)
PyStr(s) == [t |-> "str", s |-> s]
PyInt(n) == [t |-> "int", n |-> n]
PyFloat(f) == [t |-> "float", f |-> f]
PyBool(b) == [t |-> "bool", b |-> b]
PyNone == [t |-> "null"]
PyList(a) == [t |-> "arr", a |-> a]
PyDict(m) == [t |-> "obj", m |-> m]
EmptyDict == PyDict(<<>>)

IsStr(v) == v.t = "str"
IsDict(v) == v.t = "obj"

\* Python truthiness of a value (bool(v), `v or default`).
Truthy(v) ==
  CASE v.t = "str" -> v.s # <<>>
    [] v.t = "int" -> v.n # 0
    [] v.t = "float" -> TRUE
    [] v.t = "bool" -> v.b
    [] v.t = "null" -> FALSE
    [] v.t = "arr" -> v.a # <<>>
    [] v.t = "obj" -> DOMAIN v.m # {}

(***************************************************************************)
(* str methods                                                             *)
(***************************************************************************)
\* The characters str.strip() removes (the whitespace the model's texts use).
Whitespace == {" ", "\t", "\n", "\r"}

UpperLetters ==
  <<"A","B","C","D","E","F","G","H","I","J","K","L","M",
    "N","O","P","Q","R","S","T","U","V","W","X","Y","Z">>
LowerLetters ==
  <<"a","b","c","d","e","f","g","h","i","j","k","l","m",
    "n","o","p","q","r","s","t","u","v","w","x","y","z">>

\* The lower-case (upper-case) form of each letter that has one.
ToLower == [c \in {UpperLetters[i] : i \in 1..26} |->
              LowerLetters[CHOOSE i \in 1..26 : UpperLetters[i] = c]]
ToUpper == [c \in {LowerLetters[i] : i \in 1..26} |->
              UpperLetters[CHOOSE i \in 1..26 : LowerLetters[i] = c]]
LowerChar(c) == IF c \in DOMAIN ToLower THEN ToLower[c] ELSE c
UpperChar(c) == IF c \in DOMAIN ToUpper THEN ToUpper[c] ELSE c

\* s.lower(), s.upper(); <<>> \o makes the result a sequence value.
Lower(s) == <<>> \o [i \in 1..Len(s) |-> LowerChar(s[i])]
Upper(s) == <<>> \o [i \in 1..Len(s) |-> UpperChar(s[i])]

\* s[a:b] for 0 <= a, 0 <= b (Python's 0-based half-open slice).
Slice(s, a, b) == SubSeq(s, a + 1, IF b > Len(s) THEN Len(s) ELSE b)

\* s.strip(chars): drop the leading and trailing characters that are in chars.
StripChars(s, chars) ==
  IF \A i \in 1..Len(s) : s[i] \in chars THEN <<>>
  ELSE SubSeq(s,
         CHOOSE i \in 1..Len(s) :
           s[i] \notin chars /\ \A j \in 1..(i - 1) : s[j] \in chars,
         CHOOSE i \in 1..Len(s) :
           s[i] \notin chars /\ \A j \in (i + 1)..Len(s) : s[j] \in chars)

\* s.strip()
Strip(s) == StripChars(s, Whitespace)

\* s.startswith(p), s.endswith(p)
StartsWith(s, p) == Len(p) <= Len(s) /\ \A j \in 1..Len(p) : s[j] = p[j]
EndsWith(s, p) ==
  Len(p) <= Len(s) /\ \A j \in 1..Len(p) : s[Len(s) - Len(p) + j] = p[j]

\* Whether p occurs in s at 0-based offset i.
OccursAt(s, p, i) == i + Len(p) <= Len(s) /\ \A j \in 1..Len(p) : s[i + j] = p[j]

\* p in s
Contains(s, p) == \E i \in 0..(Len(s) - Len(p)) : OccursAt(s, p, i)

\* s.find(p), s.rfind(p): the 0-based offset of the first (last) occurrence, or -1.
Find(s, p) ==
  IF Contains(s, p)
  THEN CHOOSE i \in 0..(Len(s) - Len(p)) :
         OccursAt(s, p, i) /\ \A k \in 0..(i - 1) : ~OccursAt(s, p, k)
  ELSE -1
RFind(s, p) ==
  IF Contains(s, p)
  THEN CHOOSE i \in 0..(Len(s) - Len(p)) :
         OccursAt(s, p, i) /\ \A k \in (i + 1)..(Len(s) - Len(p)) : ~OccursAt(s, p, k)
  ELSE -1

(***************************************************************************)
(* json.loads, on texts without backslashes, fractions or exponents        *)
(***************************************************************************)
JsonWs == {" ", "\t", "\n", "\r"}
Digits == <<"0","1","2","3","4","5","6","7","8","9">>
IsDigit(c) == \E d \in 1..10 : Digits[d] = c
DigitVal(c) == (CHOOSE d \in 1..10 : Digits[d] = c) - 1

ScanFail == [ok |-> FALSE]
ScanOk(v, e) == [ok |-> TRUE, val |-> v, end |-> e]

\* The character at 1-based position i, or "" past the end.
At(s, i) == IF i >= 1 /\ i <= Len(s) THEN s[i] ELSE ""

\* The first position at or after i that holds no JSON whitespace.
SkipWs(s, i) ==
  CHOOSE j \in i..(Len(s) + 1) :
    /\ At(s, j) \notin JsonWs
    /\ \A k \in i..(j - 1) : s[k] \in JsonWs

\* The position of the first quote at or after position i, or 0.
NextQuote(s, i) ==
  IF \E j \in i..Len(s) : s[j] = "\""
  THEN CHOOSE j \in i..Len(s) : s[j] = "\"" /\ \A k \in i..(j - 1) : s[k] # "\""
  ELSE 0

\* The string between the quotes at positions i and j: control characters
\* are refused (and so is the backslash, which no text of the model holds).
StringBetween(s, i, j) ==
  IF j = 0 \/ \E k \in (i + 1)..(j - 1) : s[k] \in {"\n", "\t", "\r", "\\"}
  THEN ScanFail
  ELSE ScanOk(PyStr(SubSeq(s, i + 1, j - 1)), j + 1)

\* py_scanstring: a string whose opening quote is at position i.
ScanString(s, i) == StringBetween(s, i, NextQuote(s, i + 1))

\* The end (exclusive) of the run of digits that starts at position i.
DigitsEnd(s, i) ==
  CHOOSE j \in i..(Len(s) + 1) :
    /\ ~IsDigit(At(s, j))
    /\ \A k \in i..(j - 1) : IsDigit(s[k])

RECURSIVE DigitsValue(_, _, _)
DigitsValue(s, i, j) ==
  IF i >= j THEN 0 ELSE DigitsValue(s, i, j - 1) * 10 + DigitVal(s[j - 1])

\* The integer whose digits are at positions b..e-1.
NumberBetween(s, neg, b, e) ==
  IF e = b THEN ScanFail
  ELSE ScanOk(PyInt(IF neg THEN 0 - DigitsValue(s, b, e) ELSE DigitsValue(s, b, e)), e)

\* The digits from position b on: 0 | [1-9][0-9]*.
UnsignedNumber(s, neg, b) ==
  NumberBetween(s, neg, b, IF At(s, b) = "0" THEN b + 1 ELSE DigitsEnd(s, b))

\* NUMBER_RE: an integer at position i, -?(0|[1-9][0-9]*).
ScanNumber(s, i) ==
  IF At(s, i) = "-" THEN UnsignedNumber(s, TRUE, i + 1) ELSE UnsignedNumber(s, FALSE, i)

Lit_null == <<"n","u","l","l">>
Lit_true == <<"t","r","u","e">>
Lit_false == <<"f","a","l","s","e">>
Lit_NaN == <<"N","a","N">>
Lit_Infinity == <<"I","n","f","i","n","i","t","y">>
Lit_NegInfinity == <<"-","I","n","f","i","n","i","t","y">>

RECURSIVE ScanValue(_, _), ScanMembers(_, _, _), ScanElements(_, _, _)
RECURSIVE AfterKey(_, _, _), AfterColon(_, _, _, _), AfterMember(_, _, _, _)
RECURSIVE MemberEnd(_, _, _), AfterElement(_, _, _), ElementEnd(_, _, _)
RECURSIVE ObjectFrom(_, _), ArrayFrom(_, _)

\* JSONObject and JSONArray from the first position j after the bracket.
ObjectFrom(s, j) ==
  IF At(s, j) = "}" THEN ScanOk(EmptyDict, j + 1) ELSE ScanMembers(s, j, <<>>)
ArrayFrom(s, j) ==
  IF At(s, j) = "]" THEN ScanOk(PyList(<<>>), j + 1) ELSE ScanElements(s, j, <<>>)

\* scanner.scan_once: the value that starts at position i.
ScanValue(s, i) ==
  CASE At(s, i) = "\"" -> ScanString(s, i)
    [] At(s, i) = "{" -> ObjectFrom(s, SkipWs(s, i + 1))
    [] At(s, i) = "[" -> ArrayFrom(s, SkipWs(s, i + 1))
    [] At(s, i) = "n" /\ OccursAt(s, Lit_null, i - 1) -> ScanOk(PyNone, i + 4)
    [] At(s, i) = "t" /\ OccursAt(s, Lit_true, i - 1) -> ScanOk(PyBool(TRUE), i + 4)
    [] At(s, i) = "f" /\ OccursAt(s, Lit_false, i - 1) -> ScanOk(PyBool(FALSE), i + 5)
    [] At(s, i) = "N" /\ OccursAt(s, Lit_NaN, i - 1) -> ScanOk(PyFloat("nan"), i + 3)
    [] At(s, i) = "I" /\ OccursAt(s, Lit_Infinity, i - 1) -> ScanOk(PyFloat("inf"), i + 8)
    [] At(s, i) = "-" /\ OccursAt(s, Lit_NegInfinity, i - 1) -> ScanOk(PyFloat("-inf"), i + 9)
    [] OTHER -> ScanNumber(s, i)

\* JSONObject: the members from position i (a key's opening quote) on, m the
\* members read so far; a later duplicate of a key replaces the earlier one.
ScanMembers(s, i, m) ==
  IF At(s, i) # "\"" THEN ScanFail ELSE AfterKey(s, m, ScanString(s, i))
AfterKey(s, m, k) ==
  IF ~k.ok THEN ScanFail ELSE AfterColon(s, m, k.val.s, SkipWs(s, k.end))
AfterColon(s, m, key, c) ==
  IF At(s, c) # ":" THEN ScanFail
  ELSE AfterMember(s, m, key, ScanValue(s, SkipWs(s, c + 1)))
AfterMember(s, m, key, v) ==
  IF ~v.ok THEN ScanFail ELSE MemberEnd(s, (key :> v.val) @@ m, SkipWs(s, v.end))
MemberEnd(s, m, d) ==
  CASE At(s, d) = "}" -> ScanOk(PyDict(m), d + 1)
    [] At(s, d) = "," -> ScanMembers(s, SkipWs(s, d + 1), m)
    [] OTHER -> ScanFail

\* JSONArray: the elements from position i on, a the elements read so far.
ScanElements(s, i, a) == AfterElement(s, a, ScanValue(s, i))
AfterElement(s, a, v) ==
  IF ~v.ok THEN ScanFail ELSE ElementEnd(s, Append(a, v.val), SkipWs(s, v.end))
ElementEnd(s, a, d) ==
  CASE At(s, d) = "]" -> ScanOk(PyList(a), d + 1)
    [] At(s, d) = "," -> ScanElements(s, SkipWs(s, d + 1), a)
    [] OTHER -> ScanFail

\* The value v read from s, if nothing but whitespace follows it.
WholeText(s, v) == IF v.ok /\ SkipWs(s, v.end) = Len(s) + 1 THEN v ELSE ScanFail

\* json.loads(s): [ok |-> TRUE, val |-> v] or, when it raises, [ok |-> FALSE].
JsonLoads(s) == WholeText(s, ScanValue(s, SkipWs(s, 1)))

(***************************************************************************)
(* JSON helpers                                                            *)
(***************************************************************************)
\* The grave accent, which a TLA+ string cannot hold, as an atom of its own.
Backtick == "<grave>"
Fence == <<Backtick, Backtick, Backtick>>
Tag_json == <<"j","s","o","n">>
LBrace == <<"{">>
RBrace == <<"}">>

\* Lines 265-266: the language tag after the opening fence.
DropJsonTag(txt) ==
  IF StartsWith(Lower(txt), Tag_json) THEN Strip(Slice(txt, 4, Len(txt))) ELSE txt

\* Lines 263-266: the markdown fences.
Unfence(txt) ==
  IF StartsWith(txt, Fence) THEN DropJsonTag(StripChars(txt, {Backtick})) ELSE txt

\* Lines 270-272.
BraceSlice(txt, start, end) ==
  IF start # -1 /\ end # -1 THEN Strip(Slice(txt, start, end)) ELSE txt

\* _extract_json_segment with find in the place of rfind.
BraceSegment_FirstClose(txt) ==
  BraceSlice(txt, Find(txt, LBrace), Find(txt, RBrace) + 1)

\* Lines 268-272: from the first "{" to the last "}".
BraceSegment(txt) == BraceSlice(txt, Find(txt, LBrace), RFind(txt, RBrace) + 1)

\* _extract_json_segment(raw_text); raw_text is a str (the text of the oracle).
ExtractJsonSegment(raw_text) ==
  IF raw_text = <<>> THEN <<>> ELSE BraceSegment(Unfence(Strip(raw_text)))

\* Lines 280-283: the value loaded, or {} when json.loads raised.
LoadedOrEmpty(loaded) == IF loaded.ok THEN loaded.val ELSE EmptyDict

\* _safe_parse_json(raw_text): whatever json.loads returns, or {} when it raises.
SafeParseJson(raw_text) == LoadedOrEmpty(JsonLoads(ExtractJsonSegment(raw_text)))

(***************************************************************************)
(* Keyword lists and fixed strings of normalizer.py and schema.py          *)
(***************************************************************************)
\* The keywords of _looks_like_claim.
LOOKS_LIKE_CLAIM_KEYWORDS ==
  { <<"a","c","c","i","d","e","n","t">>,
    <<"d","a","m","a","g","e">>,
    <<"d","a","m","a","g","e","d">>,
    <<"f","i","r","e">>,
    <<"b","u","r","n","t">>,
    <<"b","u","r","n","e","d">>,
    <<"t","h","e","f","t">>,
    <<"s","t","o","l","e","n">>,
    <<"b","u","r","g","l","a","r","y">>,
    <<"c","o","l","l","i","s","i","o","n">>,
    <<"l","e","a","k","a","g","e">>,
    <<"l","e","a","k">>,
    <<"f","l","o","o","d">>,
    <<"s","t","o","r","m">>,
    <<"h","a","i","l">>,
    <<"c","r","a","c","k">>,
    <<"b","r","o","k","e","n">>,
    <<"d","e","n","t">>,
    <<"i","n","j","u","r","y">>,
    <<"i","n","j","u","r","i","e","s">>,
    <<"c","l","a","i","m">>,
    <<"i","n","s","u","r","a","n","c","e">> }

\* DOC_CLAIM_KEYWORDS
DOC_CLAIM_KEYWORDS ==
  { <<"i","n","s","u","r","a","n","c","e"," ","c","l","a","i","m">>,
    <<"c","l","a","i","m"," ","r","e","p","o","r","t">>,
    <<"c","l","a","i","m"," ","f","o","r","m">>,
    <<"i","n","c","i","d","e","n","t"," ","r","e","p","o","r","t">>,
    <<"l","o","s","s"," ","r","e","p","o","r","t">>,
    <<"i","n","t","i","m","a","t","e"," ","c","l","a","i","m">>,
    <<"i","n","t","i","m","a","t","i","o","n">>,
    <<"m","o","t","o","r"," ","a","c","c","i","d","e","n","t">>,
    <<"r","o","a","d"," ","a","c","c","i","d","e","n","t">>,
    <<"c","o","l","l","i","s","i","o","n">>,
    <<"r","e","a","r","-","e","n","d">>,
    <<"v","e","h","i","c","l","e"," ","d","a","m","a","g","e">>,
    <<"b","u","m","p","e","r"," ","d","a","m","a","g","e","d">>,
    <<"b","u","m","p","e","r"," ","d","a","m","a","g","e">>,
    <<"h","e","a","d","l","a","m","p"," ","b","r","o","k","e","n">>,
    <<"t","r","a","f","f","i","c"," ","s","i","g","n","a","l">>,
    <<"h","o","s","p","i","t","a","l","i","z","a","t","i","o","n">>,
    <<"h","o","s","p","i","t","a","l","i","s","a","t","i","o","n">>,
    <<"a","d","m","i","t","t","e","d">>,
    <<"d","i","s","c","h","a","r","g","e"," ","s","u","m","m","a","r","y">>,
    <<"s","u","r","g","e","r","y">>,
    <<"o","p","e","r","a","t","i","o","n">>,
    <<"i","n","p","a","t","i","e","n","t">>,
    <<"m","e","d","i","c","a","l"," ","e","x","p","e","n","s","e","s">>,
    <<"r","e","i","m","b","u","r","s","e","m","e","n","t"," ","c","l","a","i","m">>,
    <<"c","a","s","h","l","e","s","s"," ","c","l","a","i","m">>,
    <<"t","r","e","a","t","m","e","n","t"," ","d","e","t","a","i","l","s">>,
    <<"f","i","r","e"," ","i","n","c","i","d","e","n","t">>,
    <<"f","i","r","e"," ","b","r","o","k","e"," ","o","u","t">>,
    <<"s","h","o","r","t"," ","c","i","r","c","u","i","t">>,
    <<"b","u","r","n","t">>,
    <<"s","m","o","k","e"," ","d","a","m","a","g","e">>,
    <<"k","i","t","c","h","e","n"," ","f","i","r","e">>,
    <<"h","o","u","s","e"," ","b","u","r","g","l","a","r","y">>,
    <<"b","r","e","a","k","-","i","n">>,
    <<"b","u","r","g","l","a","r","y"," ","o","c","c","u","r","r","e","d">>,
    <<"s","t","o","l","e","n"," ","i","t","e","m","s">>,
    <<"p","r","o","p","e","r","t","y"," ","d","a","m","a","g","e">>,
    <<"w","a","l","l"," ","d","a","m","a","g","e">>,
    <<"c","e","i","l","i","n","g"," ","d","a","m","a","g","e">>,
    <<"w","a","t","e","r"," ","l","e","a","k","a","g","e">>,
    <<"b","u","r","s","t"," ","p","i","p","e">>,
    <<"f","l","o","o","d"," ","w","a","t","e","r">>,
    <<"u","r","b","a","n"," ","f","l","o","o","d">>,
    <<"i","n","u","n","d","a","t","i","o","n">>,
    <<"w","a","t","e","r","l","o","g","g","i","n","g">>,
    <<"b","a","g","g","a","g","e"," ","l","o","s","s">>,
    <<"l","o","s","t"," ","b","a","g","g","a","g","e">>,
    <<"m","i","s","s","i","n","g"," ","b","a","g","g","a","g","e">>,
    <<"c","h","e","c","k","e","d","-","i","n"," ","b","a","g","g","a","g","e">>,
    <<"b","a","g","g","a","g","e"," ","n","o","t"," ","d","e","l","i","v","e","r","e","d">>,
    <<"b","a","g","g","a","g","e"," ","m","i","s","h","a","n","d","l","i","n","g">>,
    <<"p","r","o","p","e","r","t","y"," ","i","r","r","e","g","u","l","a","r","i","t","y"," ","r","e","p","o","r","t">>,
    <<"p","i","r"," ","r","e","p","o","r","t">>,
    <<"a","i","r","p","o","r","t">>,
    <<"f","l","i","g","h","t">>,
    <<"a","i","r","l","i","n","e"," ","a","c","k","n","o","w","l","e","d","g","e","d">> }

\* DOC_POLICY_KEYWORDS
DOC_POLICY_KEYWORDS ==
  { <<"t","e","r","m","s"," ","a","n","d"," ","c","o","n","d","i","t","i","o","n","s">>,
    <<"c","o","v","e","r","a","g","e"," ","d","e","t","a","i","l","s">>,
    <<"s","c","o","p","e"," ","o","f"," ","c","o","v","e","r">>,
    <<"e","x","c","l","u","s","i","o","n","s">>,
    <<"p","r","e","m","i","u","m"," ","p","a","y","a","b","l","e">>,
    <<"s","u","m"," ","i","n","s","u","r","e","d">>,
    <<"p","o","l","i","c","y"," ","w","o","r","d","i","n","g">>,
    <<"t","h","i","s"," ","p","o","l","i","c","y"," ","d","o","c","u","m","e","n","t">>,
    <<"r","e","n","e","w","a","l"," ","n","o","t","i","c","e">>,
    <<"e","n","d","o","r","s","e","m","e","n","t">>,
    <<"s","c","h","e","d","u","l","e"," ","o","f"," ","b","e","n","e","f","i","t","s">> }

\* DOC_NONCLAIM_LETTER_KEYWORDS
DOC_NONCLAIM_LETTER_KEYWORDS ==
  { <<"c","l","a","i","m"," ","r","e","j","e","c","t","e","d">>,
    <<"r","e","j","e","c","t","i","o","n"," ","l","e","t","t","e","r">>,
    <<"d","e","f","i","c","i","e","n","c","y"," ","o","f"," ","d","o","c","u","m","e","n","t","s">>,
    <<"m","i","s","m","a","t","c","h"," ","i","n"," ","d","o","c","u","m","e","n","t","s">>,
    <<"k","i","n","d","l","y"," ","s","u","b","m","i","t">>,
    <<"r","e","q","u","i","r","e","d"," ","d","o","c","u","m","e","n","t","s">>,
    <<"d","i","s","c","r","e","p","a","n","c","y"," ","i","n"," ","s","u","b","m","i","t","t","e","d"," ","d","o","c","u","m","e","n","t","s">> }

S_Unknown == <<"U","n","k","n","o","w","n">>
S_NotProvided == <<"N","o","t"," ","p","r","o","v","i","d","e","d">>
S_NotAClaim == <<"N","o","t"," ","a"," ","c","l","a","i","m">>
S_NA == <<"N","/","A">>
S_High == <<"H","i","g","h">>
S_CLAIM == <<"C","L","A","I","M">>
S_POLICY == <<"P","O","L","I","C","Y">>
S_OTHER == <<"O","T","H","E","R">>
\* 'The provided text is not an insurance claim. Reason: '
S_NotAClaimPrefix == <<"T","h","e"," ","p","r","o","v","i","d","e","d"," ","t","e","x","t"," ","i","s"," ","n","o","t"," ","a","n"," ","i","n","s","u","r","a","n","c","e"," ","c","l","a","i","m","."," ","R","e","a","s","o","n",":"," ">>
S_EmptyText == <<"E","m","p","t","y"," ","t","e","x","t",".">>
S_NoReasonProvided == <<"N","o"," ","r","e","a","s","o","n"," ","p","r","o","v","i","d","e","d",".">>
\* 'Document text is empty.'
S_DocumentEmpty == <<"D","o","c","u","m","e","n","t"," ","t","e","x","t"," ","i","s"," ","e","m","p","t","y",".">>
\* 'Letter about document mismatch/rejection, not a full claim report.'
S_RejectionLetter == <<"L","e","t","t","e","r"," ","a","b","o","u","t"," ","d","o","c","u","m","e","n","t"," ","m","i","s","m","a","t","c","h","/","r","e","j","e","c","t","i","o","n",","," ","n","o","t"," ","a"," ","f","u","l","l"," ","c","l","a","i","m"," ","r","e","p","o","r","t",".">>
\* 'Contains clear incident and loss-related keywords (heuristic override).'
S_OverrideToClaim == <<"C","o","n","t","a","i","n","s"," ","c","l","e","a","r"," ","i","n","c","i","d","e","n","t"," ","a","n","d"," ","l","o","s","s","-","r","e","l","a","t","e","d"," ","k","e","y","w","o","r","d","s"," ","(","h","e","u","r","i","s","t","i","c"," ","o","v","e","r","r","i","d","e",")",".">>
\* 'Contains only policy wording/coverage keywords and no incident description.'
S_DowngradeToPolicy == <<"C","o","n","t","a","i","n","s"," ","o","n","l","y"," ","p","o","l","i","c","y"," ","w","o","r","d","i","n","g","/","c","o","v","e","r","a","g","e"," ","k","e","y","w","o","r","d","s"," ","a","n","d"," ","n","o"," ","i","n","c","i","d","e","n","t"," ","d","e","s","c","r","i","p","t","i","o","n",".">>
\* 'Model did not provide a reason.'
S_ModelGaveNoReason == <<"M","o","d","e","l"," ","d","i","d"," ","n","o","t"," ","p","r","o","v","i","d","e"," ","a"," ","r","e","a","s","o","n",".">>
S_None == <<"N","o","n","e">>
S_True == <<"T","r","u","e">>
S_False == <<"F","a","l","s","e">>
K_type == <<"t","y","p","e">>
K_reason == <<"r","e","a","s","o","n">>
K_is_claim == <<"i","s","_","c","l","a","i","m">>
F_loss_type == <<"l","o","s","s","_","t","y","p","e">>
F_severity == <<"s","e","v","e","r","i","t","y">>
F_asset == <<"a","s","s","e","t">>
F_estimated_loss == <<"e","s","t","i","m","a","t","e","d","_","l","o","s","s">>
F_incident_date == <<"i","n","c","i","d","e","n","t","_","d","a","t","e">>
F_location == <<"l","o","c","a","t","i","o","n">>
F_confidence == <<"c","o","n","f","i","d","e","n","c","e">>
F_explanation == <<"e","x","p","l","a","n","a","t","i","o","n">>

(***************************************************************************)
(* Keyword gates                                                           *)
(***************************************************************************)
MAX_DOC_CHARS == 4000

\* any(k in t for k in keywords)
AnyKeywordIn(t, keywords) == \E k \in keywords : Contains(t, k)

\* _looks_like_claim(text)
LooksLikeClaim(text) == AnyKeywordIn(Lower(text), LOOKS_LIKE_CLAIM_KEYWORDS)

\* document_text[:MAX_DOC_CHARS]
Truncate(document_text) == Slice(document_text, 0, MAX_DOC_CHARS)

\* The three heuristic signals of classify_document_type, on the truncated text.
ClaimHit(truncated) == AnyKeywordIn(Lower(truncated), DOC_CLAIM_KEYWORDS)
PolicyHit(truncated) == AnyKeywordIn(Lower(truncated), DOC_POLICY_KEYWORDS)
NonclaimLetterHit(truncated) == AnyKeywordIn(Lower(truncated), DOC_NONCLAIM_LETTER_KEYWORDS)

\* (x or "") for an argument that is a str or None.
OrEmpty(x) == IF Truthy(x) THEN x.s ELSE <<>>

(***************************************************************************)
(* What a function does next: return a value, raise, or call the oracle    *)
(* (generate_completion) and wait for its text.                            *)
(***************************************************************************)
Return(v) == [k |-> "return", v |-> v]
Raise(e) == [k |-> "raise", e |-> e]
CallOracle(st) == [k |-> "call", stage |-> st]

NoResult == [kind |-> "none"]
RecordResult(fields) == [kind |-> "record", fields |-> fields]
DocResult(is_claim, doc_type, reason) ==
  [kind |-> "doc", is_claim |-> is_claim, doc_type |-> doc_type, reason |-> reason]
ShortResult(is_claim, reason) ==
  [kind |-> "short", is_claim |-> is_claim, reason |-> reason]
SummaryResult(text) == [kind |-> "summary", text |-> text]

(***************************************************************************)
(* schema.ClaimAttributes                                                  *)
(***************************************************************************)
Fields ==
  {F_loss_type, F_severity, F_asset, F_estimated_loss,
   F_incident_date, F_location, F_confidence, F_explanation}
\* The fields annotated Optional[str]; the others are str.
OptionalFields ==
  {F_estimated_loss, F_incident_date, F_location, F_confidence, F_explanation}
FieldDefault(f) == IF f = F_explanation THEN S_NotProvided ELSE S_Unknown

\* The validation of one field: a str field takes a str, an Optional[str]
\* field a str or None.
FieldValid(f, v) == IsStr(v) \/ (f \in OptionalFields /\ v.t = "null")

\* ClaimAttributes(**kwargs), kwargs a mapping from names to values: names
\* that are no field are ignored, missing fields take their default.
ClaimAttributes(kwargs) ==
  IF \E f \in Fields \cap DOMAIN kwargs : ~FieldValid(f, kwargs[f])
  THEN Raise("ValidationError")
  ELSE Return(RecordResult(
         [f \in Fields |-> IF f \in DOMAIN kwargs THEN kwargs[f]
                           ELSE PyStr(FieldDefault(f))]))

\* dict.get(key, default)
Get(m, key, default) == IF key \in DOMAIN m THEN m[key] ELSE default

RECURSIVE NatToStr(_)
NatToStr(n) ==
  IF n < 10 THEN <<Digits[n + 1]>>
  ELSE Append(NatToStr(n \div 10), Digits[(n % 10) + 1])

\* The text an f-string puts for {v}: str(v), for the values a reason can be.
Format(v) ==
  CASE v.t = "str" -> v.s
    [] v.t = "int" -> IF v.n < 0 THEN <<"-">> \o NatToStr(0 - v.n) ELSE NatToStr(v.n)
    [] v.t = "null" -> S_None
    [] v.t = "bool" -> IF v.b THEN S_True ELSE S_False
    [] v.t = "float" -> CASE v.f = "nan" -> <<"n","a","n">>
                          [] v.f = "inf" -> <<"i","n","f">>
                          [] v.f = "-inf" -> <<"-","i","n","f">>

(***************************************************************************)
(* classify_short_text                                                     *)
(***************************************************************************)
\* classify_short_text without the strip of line 351.
ClassifyShortTextBegin_NoStrip(text_arg) ==
  IF OrEmpty(text_arg) = <<>>
  THEN Return(ShortResult(FALSE, PyStr(S_EmptyText)))
  ELSE CallOracle("classify_short")

\* Lines 351-356: up to the oracle call.
ClassifyShortTextBegin(text_arg) ==
  IF Strip(OrEmpty(text_arg)) = <<>>
  THEN Return(ShortResult(FALSE, PyStr(S_EmptyText)))
  ELSE CallOracle("classify_short")

\* Lines 359-362: parsed.get on what _safe_parse_json returned; a value
\* that is no dict has no get.
ShortFromParsed(parsed) ==
  IF ~IsDict(parsed) THEN Raise("AttributeError")
  ELSE Return(ShortResult(
         Truthy(Get(parsed.m, K_is_claim, PyBool(FALSE))),
         Get(parsed.m, K_reason, PyStr(S_NoReasonProvided))))

\* Lines 358-362: from the oracle's text on.
ClassifyShortTextResume(raw_text) == ShortFromParsed(SafeParseJson(raw_text))

(***************************************************************************)
(* classify_document_type                                                  *)
(***************************************************************************)
\* classify_document_type without the test of line 312.
ClassifyStripped_NoPrecedence(document_text) ==
  IF document_text = <<>>
  THEN Return(DocResult(FALSE, S_OTHER, S_DocumentEmpty))
  ELSE CallOracle("classify_document")

\* Lines 298-316, on the stripped text.
ClassifyStripped(document_text) ==
  IF document_text = <<>>
  THEN Return(DocResult(FALSE, S_OTHER, S_DocumentEmpty))
  ELSE IF NonclaimLetterHit(Truncate(document_text)) /\ ~ClaimHit(Truncate(document_text))
       THEN Return(DocResult(FALSE, S_OTHER, S_RejectionLetter))
       ELSE CallOracle("classify_document")

\* Lines 297-316: up to the oracle call.
ClassifyDocumentTypeBegin(document_arg) == ClassifyStripped(Strip(OrEmpty(document_arg)))

\* (v or d)
OrDefault(v, d) == IF Truthy(v) THEN v ELSE d

\* Lines 322-323 on the upper-cased, stripped type and the stripped reason.
ModelVerdict(upper, reason) ==
  [doc_type |-> IF upper \in {S_CLAIM, S_POLICY, S_OTHER} THEN upper ELSE S_OTHER,
   reason |-> reason]

\* Lines 327-330 and 333-336 on (doc_type, reason).
OverrideA(claim_hit, c) ==
  IF claim_hit /\ c.doc_type # S_CLAIM
  THEN [doc_type |-> S_CLAIM,
        reason |-> IF c.reason = <<>> THEN S_OverrideToClaim ELSE c.reason]
  ELSE c
OverrideB(claim_hit, policy_hit, c) ==
  IF policy_hit /\ ~claim_hit /\ c.doc_type = S_CLAIM
  THEN [doc_type |-> S_POLICY,
        reason |-> IF c.reason = <<>> THEN S_DowngradeToPolicy ELSE c.reason]
  ELSE c

\* Lines 338-342.
Verdict(c) ==
  Return(DocResult(c.doc_type = S_CLAIM, c.doc_type,
                   IF c.reason = <<>> THEN S_ModelGaveNoReason ELSE c.reason))

\* Lines 319-342 on the values (type or "OTHER") and (reason or ""); a value
\* that is no str has neither upper nor strip.
ClassifyValues(claim_hit, policy_hit, type_or, reason_or) ==
  IF ~IsStr(type_or) \/ ~IsStr(reason_or) THEN Raise("AttributeError")
  ELSE Verdict(OverrideB(claim_hit, policy_hit,
                 OverrideA(claim_hit,
                   ModelVerdict(Strip(Upper(type_or.s)), Strip(reason_or.s)))))

\* Lines 319-342 on what _safe_parse_json returned; a value that is no dict
\* has no get.
ClassifyParsed(truncated, parsed) ==
  IF ~IsDict(parsed) THEN Raise("AttributeError")
  ELSE ClassifyValues(ClaimHit(truncated), PolicyHit(truncated),
                      OrDefault(Get(parsed.m, K_type, PyNone), PyStr(S_OTHER)),
                      OrDefault(Get(parsed.m, K_reason, PyNone), PyStr(<<>>)))

\* Lines 317-342: from the oracle's text on.
ClassifyDocumentTypeResume(document_arg, raw_text) ==
  ClassifyParsed(Truncate(Strip(OrEmpty(document_arg))), SafeParseJson(raw_text))

(***************************************************************************)
(* extract_primary_claim_text                                              *)
(***************************************************************************)
Quote == <<"\"">>

\* Lines 369-376: up to the oracle call.
ExtractPrimaryClaimTextBegin(document_arg) ==
  IF Strip(OrEmpty(document_arg)) = <<>> THEN Return(SummaryResult(S_Unknown))
  ELSE CallOracle("summarize")

\* Lines 379-380: one layer of surrounding quotes.
Unquote(summary) ==
  IF StartsWith(summary, Quote) /\ EndsWith(summary, Quote)
  THEN Strip(Slice(summary, 1, Len(summary) - 1))
  ELSE summary

\* Line 382.
SummaryOrUnknown(summary) ==
  Return(SummaryResult(IF summary # <<>> THEN summary ELSE S_Unknown))

\* Lines 377-382: from the oracle's text on.
ExtractPrimaryClaimTextResume(raw_text) == SummaryOrUnknown(Unquote(Strip(raw_text)))

(***************************************************************************)
(* normalize_claim                                                         *)
(***************************************************************************)
\* The keyword arguments of the "not a claim" record, lines 423-435.
NotAClaimArguments(reason) ==
  [f \in Fields |->
     CASE f = F_loss_type -> PyStr(S_NotAClaim)
       [] f = F_confidence -> PyStr(S_High)
       [] f = F_explanation -> PyStr(S_NotAClaimPrefix \o Format(reason))
       [] OTHER -> PyStr(S_NA)]

\* normalize_claim with the test of line 421 inverted.
NormalizeClaimAfterShort_Inverted(short_result) ==
  IF short_result.is_claim
  THEN ClaimAttributes(NotAClaimArguments(short_result.reason))
  ELSE CallOracle("extract")

\* Lines 421-441: from the return value of classify_short_text on.
NormalizeClaimAfterShort(short_result) ==
  IF ~short_result.is_claim
  THEN ClaimAttributes(NotAClaimArguments(short_result.reason))
  ELSE CallOracle("extract")

\* Line 420: classify_short_text calls the oracle, or has returned.
ThroughShort(c) == IF c.k = "return" THEN NormalizeClaimAfterShort(c.v) ELSE c

\* normalize_claim without the keyword gate of line 419.
NormalizeStripped_NoGate(claim_text) ==
  IF claim_text = <<>> THEN ClaimAttributes(<<>>)
  ELSE ThroughShort(ClassifyShortTextBegin(PyStr(claim_text)))

\* Lines 415-441, on the stripped text.
NormalizeStripped(claim_text) ==
  IF claim_text = <<>> THEN ClaimAttributes(<<>>)
  ELSE IF ~LooksLikeClaim(claim_text)
       THEN ThroughShort(ClassifyShortTextBegin(PyStr(claim_text)))
       ELSE CallOracle("extract")

\* Lines 414-441: up to the first oracle call.
NormalizeClaimBegin(claim_arg) == NormalizeStripped(Strip(OrEmpty(claim_arg)))

\* Line 448: ClaimAttributes(**parsed); ** takes a mapping.
RecordFromParsed(parsed) ==
  IF ~IsDict(parsed) THEN Raise("TypeError") ELSE ClaimAttributes(parsed.m)

\* Lines 445-451: from the text of the extraction call on.
NormalizeClaimAfterExtract(llm_output) == RecordFromParsed(SafeParseJson(llm_output))

(***************************************************************************)
(* normalize_document_text                                                 *)
(***************************************************************************)
\* Lines 397-401: the text handed to normalize_claim.
IncidentSummary(document_text, summary) ==
  IF summary = S_Unknown THEN Truncate(document_text) ELSE summary

\* Line 394: extract_primary_claim_text calls the oracle, or has returned.
ThroughSummary(document_text, e) ==
  IF e.k = "return"
  THEN NormalizeClaimBegin(PyStr(IncidentSummary(document_text, e.v.text)))
  ELSE e

\* normalize_document_text without the summarizer call of line 394.
NormalizeDocumentStripped_NoSummary(document_text) ==
  IF document_text = <<>> THEN ClaimAttributes(<<>>)
  ELSE NormalizeClaimBegin(PyStr(Truncate(document_text)))

\* Lines 391-401, on the stripped text.
NormalizeDocumentStripped(document_text) ==
  IF document_text = <<>> THEN ClaimAttributes(<<>>)
  ELSE ThroughSummary(document_text, ExtractPrimaryClaimTextBegin(PyStr(document_text)))

\* Lines 390-401: up to the first oracle call.
NormalizeDocumentTextBegin(document_arg) ==
  NormalizeDocumentStripped(Strip(OrEmpty(document_arg)))

(***************************************************************************)
(* Texts: arguments of the requests, answers of the oracle, JSON bodies    *)
(***************************************************************************)
\* 'Hey, how is the weather today?'
Text_Greeting == <<"H","e","y",","," ","h","o","w"," ","i","s"," ","t","h","e"," ","w","e","a","t","h","e","r"," ","t","o","d","a","y","?">>
\* 'Hello'
Text_Hello == <<"H","e","l","l","o">>
\* 'Car accident on main road, rear bumper damaged.'
Text_Accident == <<"C","a","r"," ","a","c","c","i","d","e","n","t"," ","o","n"," ","m","a","i","n"," ","r","o","a","d",","," ","r","e","a","r"," ","b","u","m","p","e","r"," ","d","a","m","a","g","e","d",".">>
\* '  My student is late.\n'
Text_Student == <<" "," ","M","y"," ","s","t","u","d","e","n","t"," ","i","s"," ","l","a","t","e",".","\n">>
\* 'Fire broke out in the kitchen last night.'
Doc_Fire == <<"F","i","r","e"," ","b","r","o","k","e"," ","o","u","t"," ","i","n"," ","t","h","e"," ","k","i","t","c","h","e","n"," ","l","a","s","t"," ","n","i","g","h","t",".">>
\* 'Claim rejected due to deficiency of documents.'
Doc_Rejection == <<"C","l","a","i","m"," ","r","e","j","e","c","t","e","d"," ","d","u","e"," ","t","o"," ","d","e","f","i","c","i","e","n","c","y"," ","o","f"," ","d","o","c","u","m","e","n","t","s",".">>
\* 'This policy document lists the sum insured and exclusions.'
Doc_Policy == <<"T","h","i","s"," ","p","o","l","i","c","y"," ","d","o","c","u","m","e","n","t"," ","l","i","s","t","s"," ","t","h","e"," ","s","u","m"," ","i","n","s","u","r","e","d"," ","a","n","d"," ","e","x","c","l","u","s","i","o","n","s",".">>
\* ' Claim rejected although a fire broke out.\n'
Doc_RejectionWithFire == <<" ","C","l","a","i","m"," ","r","e","j","e","c","t","e","d"," ","a","l","t","h","o","u","g","h"," ","a"," ","f","i","r","e"," ","b","r","o","k","e"," ","o","u","t",".","\n">>
\* 'Renewal notice: claim rejected.'
Doc_PolicyRejection == <<"R","e","n","e","w","a","l"," ","n","o","t","i","c","e",":"," ","c","l","a","i","m"," ","r","e","j","e","c","t","e","d",".">>
\* 'Sum insured applies to the motor accident.'
Doc_PolicyWithAccident == <<"S","u","m"," ","i","n","s","u","r","e","d"," ","a","p","p","l","i","e","s"," ","t","o"," ","t","h","e"," ","m","o","t","o","r"," ","a","c","c","i","d","e","n","t",".">>
\* 'Minutes of the weekly meeting.'
Doc_Minutes == <<"M","i","n","u","t","e","s"," ","o","f"," ","t","h","e"," ","w","e","e","k","l","y"," ","m","e","e","t","i","n","g",".">>
\* '{"type": "CLAIM", "reason": "Describes an incident."}'
Out_TypeClaim == <<"{","\"","t","y","p","e","\"",":"," ","\"","C","L","A","I","M","\"",","," ","\"","r","e","a","s","o","n","\"",":"," ","\"","D","e","s","c","r","i","b","e","s"," ","a","n"," ","i","n","c","i","d","e","n","t",".","\"","}">>
\* '{"type": "POLICY", "reason": "Policy wording."}'
Out_TypePolicy == <<"{","\"","t","y","p","e","\"",":"," ","\"","P","O","L","I","C","Y","\"",","," ","\"","r","e","a","s","o","n","\"",":"," ","\"","P","o","l","i","c","y"," ","w","o","r","d","i","n","g",".","\"","}">>
\* '{"type": " other "}'
Out_TypeOtherLower == <<"{","\"","t","y","p","e","\"",":"," ","\""," ","o","t","h","e","r"," ","\"","}">>
\* '{"type": "Claim"}'
Out_TypeClaimNoReason == <<"{","\"","t","y","p","e","\"",":"," ","\"","C","l","a","i","m","\"","}">>
\* '{"type": "LETTER", "reason": ""}'
Out_TypeInvalid == <<"{","\"","t","y","p","e","\"",":"," ","\"","L","E","T","T","E","R","\"",","," ","\"","r","e","a","s","o","n","\"",":"," ","\"","\"","}">>
\* '{"type": 7}'
Out_TypeNumber == <<"{","\"","t","y","p","e","\"",":"," ","7","}">>
\* '{"type": "CLAIM", "reason": 7}'
Out_ReasonNumber == <<"{","\"","t","y","p","e","\"",":"," ","\"","C","L","A","I","M","\"",","," ","\"","r","e","a","s","o","n","\"",":"," ","7","}">>
\* '```json\n{"is_claim": true, "reason": "Reports damage."}\n```'
Out_IsClaimFenced == <<Backtick,Backtick,Backtick,"j","s","o","n","\n","{","\"","i","s","_","c","l","a","i","m","\"",":"," ","t","r","u","e",","," ","\"","r","e","a","s","o","n","\"",":"," ","\"","R","e","p","o","r","t","s"," ","d","a","m","a","g","e",".","\"","}","\n",Backtick,Backtick,Backtick>>
\* '{"is_claim": false, "reason": "Just a greeting."}'
Out_NotClaim == <<"{","\"","i","s","_","c","l","a","i","m","\"",":"," ","f","a","l","s","e",","," ","\"","r","e","a","s","o","n","\"",":"," ","\"","J","u","s","t"," ","a"," ","g","r","e","e","t","i","n","g",".","\"","}">>
\* '{}'
Out_EmptyObject == <<"{","}">>
\* '{"reason": null}'
Out_ReasonNull == <<"{","\"","r","e","a","s","o","n","\"",":"," ","n","u","l","l","}">>
\* '{"loss_type": "Fire", "severity": "Extreme", "asset": "Kitchen"}'
Out_Extracted == <<"{","\"","l","o","s","s","_","t","y","p","e","\"",":"," ","\"","F","i","r","e","\"",","," ","\"","s","e","v","e","r","i","t","y","\"",":"," ","\"","E","x","t","r","e","m","e","\"",","," ","\"","a","s","s","e","t","\"",":"," ","\"","K","i","t","c","h","e","n","\"","}">>
\* '{"loss_type": "Vehicle", "location": null}'
Out_LocationNull == <<"{","\"","l","o","s","s","_","t","y","p","e","\"",":"," ","\"","V","e","h","i","c","l","e","\"",","," ","\"","l","o","c","a","t","i","o","n","\"",":"," ","n","u","l","l","}">>
\* '{"severity": 7}'
Out_SeverityNumber == <<"{","\"","s","e","v","e","r","i","t","y","\"",":"," ","7","}">>
\* '7'
Out_Number == <<"7">>
\* 'I cannot help with that.'
Out_Prose == <<"I"," ","c","a","n","n","o","t"," ","h","e","l","p"," ","w","i","t","h"," ","t","h","a","t",".">>
\* '"A pipe burst and caused water damage."'
Out_QuotedSummary == <<"\"","A"," ","p","i","p","e"," ","b","u","r","s","t"," ","a","n","d"," ","c","a","u","s","e","d"," ","w","a","t","e","r"," ","d","a","m","a","g","e",".","\"">>
\* 'Unknown'
Out_Unknown == <<"U","n","k","n","o","w","n">>
\* ''
Out_Empty == <<>>
\* 'Here {it} is: {"type": "POLICY"}'
Out_BracesInProse == <<"H","e","r","e"," ","{","i","t","}"," ","i","s",":"," ","{","\"","t","y","p","e","\"",":"," ","\"","P","O","L","I","C","Y","\"","}">>
\* {}
Json_Empty == <<"{","}">>
\* {"a":"b"}
Json_Flat == <<"{","\"","a","\"",":","\"","b","\"","}">>
\* {"a":{"b":7}}
Json_Nested == <<"{","\"","a","\"",":","{","\"","b","\"",":","7","}","}">>
\* { "a" : 7 }
Json_Spaced == <<"{"," ","\"","a","\""," ",":"," ","7"," ","}">>
\* {"a":"}{"}
Json_BraceInString == <<"{","\"","a","\"",":","\"","}","{","\"","}">>
\* 7
Json_Number == <<"7">>
\* []
Json_Array == <<"[","]">>
\* "x"
Json_String == <<"\"","x","\"">>
\* null
Json_Null == <<"n","u","l","l">>
\* [{}]
Json_ArrayOfObject == <<"[","{","}","]">>
\* {
Json_OpenOnly == <<"{">>
\* }
Json_CloseOnly == <<"}">>
\* }{
Json_CloseOpen == <<"}","{">>
\* {"a":
Json_Truncated == <<"{","\"","a","\"",":">>
\* {"a":7,}
Json_TrailingComma == <<"{","\"","a","\"",":","7",",","}">>
\* abc
Json_Words == <<"a","b","c">>

(***************************************************************************)
(* Bounds and inputs                                                       *)
(***************************************************************************)
\* The longest whitespace-only input.
MaxWs == 2
\* The longest prose before and after an embedded JSON object.
MaxProse == 1

\* The sequences over chars of length at most n.
RECURSIVE SeqsUpTo(_, _)
SeqsUpTo(chars, n) ==
  IF n = 0 THEN {<<>>}
  ELSE LET shorter == SeqsUpTo(chars, n - 1)
       IN  shorter \cup {Append(s, c) : s \in shorter, c \in chars}

\* Empty, missing and whitespace-only arguments.
BlankInputs == {PyNone} \cup {PyStr(s) : s \in SeqsUpTo(Whitespace, MaxWs)}

\* A document whose only keyword straddles the MAX_DOC_CHARS boundary.
Doc_KeywordPastLimit == [i \in 1..(MAX_DOC_CHARS - 4) |-> "x"] \o Lower(Doc_Fire)

ClaimInputs ==
  BlankInputs \cup
  {PyStr(s) : s \in {Text_Greeting, Text_Hello, Text_Accident, Text_Student}}

DocumentInputs ==
  BlankInputs \cup
  {PyStr(s) : s \in {Doc_Fire, Doc_Rejection, Doc_Policy, Doc_RejectionWithFire,
                     Doc_PolicyRejection, Doc_PolicyWithAccident, Doc_Minutes}}

\* The documents handed to the classifier alone: those, and the long one.
ClassifierInputs == DocumentInputs \cup {PyStr(Doc_KeywordPastLimit)}

\* The texts the oracle may answer with, at any stage.
OracleTexts ==
  {Out_TypeClaim, Out_TypePolicy, Out_TypeOtherLower, Out_TypeClaimNoReason,
   Out_TypeInvalid, Out_TypeNumber, Out_ReasonNumber, Out_IsClaimFenced,
   Out_NotClaim, Out_EmptyObject, Out_ReasonNull, Out_Extracted,
   Out_LocationNull, Out_SeverityNumber, Out_Number, Out_Prose,
   Out_QuotedSummary, Out_Unknown, Out_Empty, Out_BracesInProse}

(***************************************************************************)
(* The inputs of the JSON helpers: a body, optionally fenced, between      *)
(* prose.                                                                  *)
(***************************************************************************)
ProseChars == {"x", " ", "{", "}", Backtick}
Proses == SeqsUpTo(ProseChars, MaxProse)

JsonObjects ==
  {Json_Empty, Json_Flat, Json_Nested, Json_Spaced, Json_BraceInString}
JsonBodies ==
  JsonObjects \cup
  {Json_Number, Json_Array, Json_String, Json_Null, Json_ArrayOfObject,
   Json_OpenOnly, Json_CloseOnly, Json_CloseOpen, Json_Truncated,
   Json_TrailingComma, Json_Words, <<>>}

\* The opening and closing lines of a code fence, by kind.
FenceKinds == {"none", "bare", "json", "JSON", "js"}
FenceOpen(kind) ==
  CASE kind = "none" -> <<>>
    [] kind = "bare" -> Fence \o <<"\n">>
    [] kind = "json" -> Fence \o <<"j","s","o","n","\n">>
    [] kind = "JSON" -> Fence \o <<"J","S","O","N","\n">>
    [] kind = "js" -> Fence \o <<"j","s","\n">>
FenceClose(kind) == IF kind = "none" THEN <<>> ELSE <<"\n">> \o Fence

Compose(p) == p.pre \o FenceOpen(p.fence) \o p.body \o FenceClose(p.fence) \o p.post

JsonParts ==
  [pre : Proses, fence : FenceKinds, body : JsonBodies, post : Proses]

(***************************************************************************)
(* State                                                                   *)
(***************************************************************************)
VARIABLES
  pc,          \* "idle", "oracle" (waiting for generate_completion), "done", "raised"
  op,          \* the function the caller invoked, "none" before
  arg,         \* its argument: a str or None
  stage,       \* the oracle call in flight
  claim_text,  \* normalize_claim's stripped claim_text
  short,       \* what classify_short_text returned to normalize_claim
  raw,         \* the oracle's latest text
  calls,       \* the oracle calls made so far, in order
  result,      \* the value returned to the caller
  exc,         \* the exception that reached the caller
  faulted,     \* whether generate_completion raised
  jpc,         \* the JSON helper run: "off", "input", "parsed"
  jparts,      \* how its input was composed
  jraw,        \* its input
  jout         \* what _safe_parse_json returned

vars ==
  <<pc, op, arg, stage, claim_text, short, raw, calls, result, exc, faulted,
    jpc, jparts, jraw, jout>>
pipeline == <<pc, op, arg, stage, claim_text, short, raw, calls, result, exc, faulted>>
jsonrun == <<jpc, jparts, jraw, jout>>

NoShort == [set |-> FALSE, is_claim |-> FALSE, reason |-> PyNone]
SetShort(r) == [set |-> TRUE, is_claim |-> r.is_claim, reason |-> r.reason]
NoParts == [pre |-> <<>>, fence |-> "none", body |-> <<>>, post |-> <<>>]

PipelineIdle ==
  /\ pc = "idle" /\ op = "none" /\ arg = PyNone /\ stage = "none"
  /\ claim_text = <<>> /\ short = NoShort /\ raw = <<>> /\ calls = <<>>
  /\ result = NoResult /\ exc = "none" /\ faulted = FALSE

Init ==
  /\ PipelineIdle
  /\ jpc = "off" /\ jparts = NoParts /\ jraw = <<>> /\ jout = EmptyDict

\* The function does what the outcome o says.
Apply(o) ==
  /\ pc' = CASE o.k = "return" -> "done"
             [] o.k = "raise" -> "raised"
             [] o.k = "call" -> "oracle"
  /\ stage' = IF o.k = "call" THEN o.stage ELSE "none"
  /\ calls' = IF o.k = "call" THEN Append(calls, o.stage) ELSE calls
  /\ result' = IF o.k = "return" THEN o.v ELSE NoResult
  /\ exc' = IF o.k = "raise" THEN o.e ELSE "none"

(***************************************************************************)
(* The caller invokes a function                                           *)
(***************************************************************************)
normalize_claim ==
  \E t \in ClaimInputs :
    /\ pc = "idle"
    /\ op' = "normalize_claim" /\ arg' = t
    /\ claim_text' = Strip(OrEmpty(t))
    /\ Apply(NormalizeClaimBegin(t))
    /\ UNCHANGED <<short, raw, faulted, jsonrun>>

normalize_document_text ==
  \E t \in DocumentInputs :
    /\ pc = "idle"
    /\ op' = "normalize_document_text" /\ arg' = t
    /\ Apply(NormalizeDocumentTextBegin(t))
    /\ UNCHANGED <<claim_text, short, raw, faulted, jsonrun>>

classify_document_type ==
  \E t \in ClassifierInputs :
    /\ pc = "idle"
    /\ op' = "classify_document_type" /\ arg' = t
    /\ Apply(ClassifyDocumentTypeBegin(t))
    /\ UNCHANGED <<claim_text, short, raw, faulted, jsonrun>>

classify_short_text ==
  \E t \in ClaimInputs :
    /\ pc = "idle"
    /\ op' = "classify_short_text" /\ arg' = t
    /\ Apply(ClassifyShortTextBegin(t))
    /\ UNCHANGED <<claim_text, short, raw, faulted, jsonrun>>

extract_primary_claim_text ==
  \E t \in DocumentInputs :
    /\ pc = "idle"
    /\ op' = "extract_primary_claim_text" /\ arg' = t
    /\ Apply(ExtractPrimaryClaimTextBegin(t))
    /\ UNCHANGED <<claim_text, short, raw, faulted, jsonrun>>

(***************************************************************************)
(* generate_completion returns a text, and the waiting function goes on    *)
(***************************************************************************)
\* classify_short_text ends with r: the request ends with it, or
\* normalize_claim goes on from line 421.
AfterClassifyShort(caller, r) ==
  IF caller = "classify_short_text" \/ r.k # "return" THEN r
  ELSE NormalizeClaimAfterShort(r.v)
ShortSeen(caller, old, r) ==
  IF caller = "classify_short_text" \/ r.k # "return" THEN old ELSE SetShort(r.v)

\* extract_primary_claim_text ends with r: the request ends with it, or
\* normalize_document_text goes on from line 395.
AfterSummary(caller, document_arg, r) ==
  IF caller = "extract_primary_claim_text" THEN r
  ELSE NormalizeClaimBegin(PyStr(IncidentSummary(Strip(OrEmpty(document_arg)), r.v.text)))
ClaimTextSeen(caller, old, document_arg, r) ==
  IF caller = "extract_primary_claim_text" THEN old
  ELSE Strip(IncidentSummary(Strip(OrEmpty(document_arg)), r.v.text))

\* The call of classify_document_type, line 316.
DocumentClassifierReturns ==
  \E text \in OracleTexts :
    /\ pc = "oracle" /\ stage = "classify_document"
    /\ raw' = text
    /\ Apply(ClassifyDocumentTypeResume(arg, text))
    /\ UNCHANGED <<op, arg, claim_text, short, faulted, jsonrun>>

\* The call of classify_short_text, line 356; the function returns to its
\* caller, which is normalize_claim (line 420) or the caller of the request.
ShortClassifierReturns ==
  \E text \in OracleTexts :
    /\ pc = "oracle" /\ stage = "classify_short"
    /\ raw' = text
    /\ short' = ShortSeen(op, short, ClassifyShortTextResume(text))
    /\ Apply(AfterClassifyShort(op, ClassifyShortTextResume(text)))
    /\ UNCHANGED <<op, arg, claim_text, faulted, jsonrun>>

\* The call of extract_primary_claim_text, line 376; the function returns to
\* its caller, which is normalize_document_text (line 394) or the caller of
\* the request.
SummarizerReturns ==
  \E text \in OracleTexts :
    /\ pc = "oracle" /\ stage = "summarize"
    /\ raw' = text
    /\ claim_text' = ClaimTextSeen(op, claim_text, arg, ExtractPrimaryClaimTextResume(text))
    /\ Apply(AfterSummary(op, arg, ExtractPrimaryClaimTextResume(text)))
    /\ UNCHANGED <<op, arg, short, faulted, jsonrun>>

\* The call of normalize_claim, line 441.
ExtractorReturns ==
  \E text \in OracleTexts :
    /\ pc = "oracle" /\ stage = "extract"
    /\ raw' = text
    /\ Apply(NormalizeClaimAfterExtract(text))
    /\ UNCHANGED <<op, arg, claim_text, short, faulted, jsonrun>>

\* A handler around the call that calls generate_completion again.
OracleFaults_Retry ==
  /\ pc = "oracle"
  /\ faulted' = TRUE
  /\ calls' = Append(calls, stage)
  /\ UNCHANGED <<pc, op, arg, stage, claim_text, short, raw, result, exc, jsonrun>>

\* generate_completion raises (the model fails to load or to complete); no
\* function of normalizer.py has a handler around the call.
OracleFaults ==
  /\ pc = "oracle"
  /\ faulted' = TRUE
  /\ pc' = "raised" /\ exc' = "OracleFault" /\ stage' = "none"
  /\ UNCHANGED <<op, arg, claim_text, short, raw, calls, result, jsonrun>>

Next ==
  \/ normalize_claim
  \/ normalize_document_text
  \/ classify_document_type
  \/ classify_short_text
  \/ extract_primary_claim_text
  \/ DocumentClassifierReturns
  \/ ShortClassifierReturns
  \/ SummarizerReturns
  \/ ExtractorReturns
  \/ OracleFaults

Spec == Init /\ [][Next]_vars

(***************************************************************************)
(* The JSON helpers on their own                                           *)
(***************************************************************************)
InitJson ==
  /\ PipelineIdle
  /\ jpc = "input"
  /\ jparts \in JsonParts
  /\ jraw = Compose(jparts)
  /\ jout = EmptyDict

safe_parse_json ==
  /\ jpc = "input"
  /\ jout' = SafeParseJson(jraw)
  /\ jpc' = "parsed"
  /\ UNCHANGED <<jparts, jraw, pipeline>>

NextJson == safe_parse_json

SpecJson == InitJson /\ [][NextJson]_vars

(***************************************************************************)
(* Properties                                                              *)
(***************************************************************************)
\* The characters of a text.
Chars(s) == {s[i] : i \in 1..Len(s)}

\* The argument of the request is empty, missing or whitespace-only.
BlankArgument == arg = PyNone \/ Chars(arg.s) \subseteq Whitespace

\* The first MAX_DOC_CHARS characters of the trimmed document of the request.
TruncatedDocument == Truncate(Strip(OrEmpty(arg)))

\* The oracle call st was the latest of the request and has returned a text.
OracleReturned(st) ==
  /\ calls # <<>> /\ calls[Len(calls)] = st
  /\ pc # "oracle" /\ ~faulted

\* The doc_type a parsed oracle output carries: its "type" when that is a
\* string, upper-cased and trimmed; the empty text when it carries none.
TypeSaid(parsed) ==
  IF IsDict(parsed) /\ K_type \in DOMAIN parsed.m /\ IsStr(parsed.m[K_type])
  THEN Strip(Upper(parsed.m[K_type].s))
  ELSE <<>>

\* The "not a claim" record for a classifier reason.
SentinelRecord(reason) ==
  RecordResult(
    [f \in Fields |->
       IF f = F_loss_type THEN PyStr(S_NotAClaim)
       ELSE IF f = F_confidence THEN PyStr(S_High)
       ELSE IF f = F_explanation THEN PyStr(S_NotAClaimPrefix \o Format(reason))
       ELSE PyStr(S_NA)])

\* The fully-defaulted record.
DefaultedRecord ==
  RecordResult(
    [f \in Fields |-> IF f = F_explanation THEN PyStr(S_NotProvided)
                      ELSE PyStr(S_Unknown)])

\* C1: when normalize_claim runs on a non-empty text without claim keyword
\* and classify_short_text has reported is_claim = false, the request has
\* returned exactly the sentinel record, whose explanation is the fixed prefix
\* followed by the classifier's reason, and the extraction call was not made.
C1_SentinelRecord ==
  (/\ short.set /\ ~short.is_claim
   /\ claim_text # <<>> /\ ~LooksLikeClaim(claim_text))
  => /\ pc = "done"
     /\ result = SentinelRecord(short.reason)
     /\ \A i \in 1..Len(calls) : calls[i] # "extract"

\* C1, its case: a greeting was classified as no claim and the record returned.
C1_Witness ==
  /\ op = "normalize_claim" /\ arg = PyStr(Text_Greeting)
  /\ short.set /\ ~short.is_claim /\ raw = Out_NotClaim
  /\ pc = "done" /\ result.kind = "record"

\* C2: in classify_document_type, when the truncated document holds a claim
\* keyword and the oracle has returned, the result is (is_claim = true,
\* doc_type = CLAIM), whatever the oracle's output carries.
C2_ClaimKeywordForcesClaim ==
  (/\ op = "classify_document_type"
   /\ OracleReturned("classify_document")
   /\ ClaimHit(TruncatedDocument))
  => /\ pc = "done"
     /\ result.is_claim /\ result.doc_type = S_CLAIM

\* C3: in classify_document_type, for a non-empty document whose truncated
\* text holds a nonclaim-letter keyword and no claim keyword, the request has
\* returned (false, OTHER, the rejection-letter reason) and the oracle was
\* never called.
C3_RejectionLetterBeforeOracle ==
  (/\ op = "classify_document_type"
   /\ ~BlankArgument
   /\ NonclaimLetterHit(TruncatedDocument) /\ ~ClaimHit(TruncatedDocument))
  => /\ pc = "done"
     /\ result = DocResult(FALSE, S_OTHER, S_RejectionLetter)
     /\ calls = <<>>

\* C3, its case: a rejection letter that is also policy language was classified.
C3_Witness ==
  /\ op = "classify_document_type" /\ arg = PyStr(Doc_PolicyRejection)
  /\ pc = "done" /\ result.doc_type = S_OTHER /\ calls = <<>>

\* C4: in classify_document_type, for a document whose truncated text holds a
\* policy keyword and no claim keyword, once the oracle has returned: when it
\* said CLAIM the result is (false, POLICY), when it said POLICY or OTHER the
\* result carries that doc_type, and the result is never CLAIM.
C4_PolicyNeverClaim ==
  (/\ op = "classify_document_type"
   /\ OracleReturned("classify_document")
   /\ PolicyHit(TruncatedDocument) /\ ~ClaimHit(TruncatedDocument))
  => /\ pc = "done" => result.doc_type # S_CLAIM /\ ~result.is_claim
     /\ TypeSaid(SafeParseJson(raw)) = S_CLAIM
          => pc = "done" /\ result.doc_type = S_POLICY
     /\ TypeSaid(SafeParseJson(raw)) \in {S_POLICY, S_OTHER}
          => pc = "done" /\ result.doc_type = TypeSaid(SafeParseJson(raw))

\* The object each well-formed body denotes.
ObjectOf(body) ==
  CASE body = Json_Empty -> EmptyDict
    [] body = Json_Flat -> PyDict(<<"a">> :> PyStr(<<"b">>))
    [] body = Json_Nested -> PyDict(<<"a">> :> PyDict(<<"b">> :> PyInt(7)))
    [] body = Json_Spaced -> PyDict(<<"a">> :> PyInt(7))
    [] body = Json_BraceInString -> PyDict(<<"a">> :> PyStr(<<"}", "{">>))

\* C5, as stated: for a well-formed JSON object between arbitrary prose,
\* fenced or not, _safe_parse_json returns exactly that object.
C5_RoundTripAnyProse ==
  (jpc = "parsed" /\ jparts.body \in JsonObjects)
  => jout = ObjectOf(jparts.body)

\* C5, amended: for a well-formed JSON object, fenced (with or without a
\* language tag) or not, between prose that has no "{" before the object and
\* no "}" after it, _safe_parse_json returns exactly that object.
C5_RoundTripBraceFreeProse ==
  (/\ jpc = "parsed" /\ jparts.body \in JsonObjects
   /\ "{" \notin Chars(jparts.pre) /\ "}" \notin Chars(jparts.post))
  => jout = ObjectOf(jparts.body)

\* C5, its case: a nested object in a tagged fence between prose was recovered.
C5_Witness ==
  /\ jpc = "parsed"
  /\ jparts = [pre |-> <<"}">>, fence |-> "JSON", body |-> Json_Nested, post |-> <<"x">>]
  /\ jout = ObjectOf(Json_Nested)

\* C6: _safe_parse_json always yields a mapping: the parsed object or the
\* empty mapping.
C6_AlwaysMapping == jpc = "parsed" => IsDict(jout)

\* C7: once the oracle has returned to the extraction call, normalize_claim
\* has returned a record whose eight fields all hold strings; it has not
\* raised.
C7_RecordOfStrings ==
  OracleReturned("extract")
  => /\ pc = "done" /\ result.kind = "record"
     /\ \A f \in Fields : IsStr(result.fields[f])

\* C8: for an empty, missing or whitespace-only argument every function has
\* returned its fixed result, and the oracle was not called.
C8_BlankInputFastPath ==
  (op # "none" /\ BlankArgument)
  => /\ pc = "done" /\ calls = <<>>
     /\ op \in {"normalize_claim", "normalize_document_text"}
          => result = DefaultedRecord
     /\ op = "classify_short_text"
          => result = ShortResult(FALSE, PyStr(S_EmptyText))
     /\ op = "classify_document_type"
          => result = DocResult(FALSE, S_OTHER, S_DocumentEmpty)
     /\ op = "extract_primary_claim_text"
          => result = SummaryResult(S_Unknown)

\* C8, its case: classify_short_text was called on whitespace alone.
C8_Witness ==
  /\ op = "classify_short_text" /\ arg = PyStr(<<" ", "\n">>)
  /\ pc = "done"

\* C9: classify_short_text never raises; when the oracle faulted or its
\* output is no JSON object it has returned (false, "No reason provided.").
C9_ShortClassifierNeverRaises ==
  op = "classify_short_text"
  => /\ pc # "raised"
     /\ (OracleReturned("classify_short") /\ ~IsDict(SafeParseJson(raw)))
          => result = ShortResult(FALSE, PyStr(S_NoReasonProvided))

\* C10: once the oracle has faulted, the request has ended with the fault at
\* the caller and without a result, and the oracle is not called again.
C10_FaultPropagates ==
  /\ [](faulted => pc = "raised" /\ exc = "OracleFault" /\ result = NoResult)
  /\ [][faulted => calls' = calls]_vars

\* C10, its case: the extraction call of a document request faulted.
C10_Witness ==
  /\ faulted /\ op = "normalize_document_text"
  /\ calls = <<"summarize", "extract">>

\* C11: classify_document_type ends, unless the oracle faulted, by returning
\* a result with doc_type in {CLAIM, POLICY, OTHER}, is_claim = (doc_type =
\* CLAIM) and a non-empty reason; a doc_type of the oracle that is absent or
\* none of the three is taken as OTHER before the overrides (so the result is
\* CLAIM with a claim keyword and OTHER without), and nothing is raised.
C11_DocumentResultWellFormed ==
  (op = "classify_document_type" /\ pc \notin {"idle", "oracle"} /\ ~faulted)
  => /\ pc = "done"
     /\ result.doc_type \in {S_CLAIM, S_POLICY, S_OTHER}
     /\ result.is_claim = (result.doc_type = S_CLAIM)
     /\ result.reason # <<>>
     /\ (/\ OracleReturned("classify_document")
         /\ TypeSaid(SafeParseJson(raw)) \notin {S_CLAIM, S_POLICY, S_OTHER})
          => result.doc_type =
               IF ClaimHit(TruncatedDocument) THEN S_CLAIM ELSE S_OTHER

\* C12: when the extraction output parses to a mapping, normalize_claim
\* returns a record in which each of the eight fields is the mapping's value
\* if the key is present and the field's default otherwise.
C12_FieldWiseReconcile ==
  (OracleReturned("extract") /\ IsDict(SafeParseJson(raw)))
  => /\ pc = "done" /\ result.kind = "record"
     /\ \A f \in Fields :
          result.fields[f] =
            IF f \in DOMAIN SafeParseJson(raw).m THEN SafeParseJson(raw).m[f]
            ELSE IF f = F_explanation THEN PyStr(S_NotProvided)
            ELSE PyStr(S_Unknown)

\* C13, as stated: within normalize_document_text the summarizer and the
\* extractor are called only after classify_document_type has been called
\* on the document.
C13_ClassifierGatesDocument ==
  op = "normalize_document_text"
  => \A i \in 1..Len(calls) :
       calls[i] \in {"summarize", "extract"}
         => \E j \in 1..(i - 1) : calls[j] = "classify_document"

\* C13, amended: normalize_document_text does not consult the document
\* classifier: for every non-empty document the summarizer is called first,
\* whatever the document's type, the extractor only after it, and
\* classify_document_type is not called at all.
C13_SummarizerUngated ==
  (op = "normalize_document_text" /\ ~BlankArgument)
  => /\ calls # <<>> /\ calls[1] = "summarize"
     /\ \A i \in 1..Len(calls) :
          /\ calls[i] # "classify_document"
          /\ calls[i] = "extract" => i > 1

\* C13, its case: a policy document went through the summarizer and the
\* extractor.
C13_Witness ==
  /\ op = "normalize_document_text" /\ arg = PyStr(Doc_Policy)
  /\ calls = <<"summarize", "extract">> /\ pc = "done"

\* The oracle calls of normalize_claim in the request: all of them, or those
\* after the summarizer call of normalize_document_text.
ExtractCalls ==
  IF op = "normalize_document_text" /\ calls # <<>> THEN Tail(calls) ELSE calls

\* C14: in a request of normalize_claim or normalize_document_text the oracle
\* calls are sequential (one in flight, the latest) and bounded: for a
\* document the summarizer call comes first; then the short-text classifier
\* is called iff the keyword gate is false, before the extraction call, and
\* the extraction call is made iff the gate is true or the classifier
\* returned is_claim = true; so one call with the gate true or a non-claim
\* verdict, two with a claim verdict, never more.
C14_OracleCallsBounded ==
  op \in {"normalize_claim", "normalize_document_text"}
  => /\ pc = "oracle" => calls # <<>> /\ stage = calls[Len(calls)]
     /\ (op = "normalize_document_text" /\ calls # <<>>) => calls[1] = "summarize"
     /\ ExtractCalls \in {<<>>, <<"classify_short">>, <<"extract">>,
                          <<"classify_short", "extract">>}
     /\ claim_text = <<>> => ExtractCalls = <<>>
     /\ claim_text # <<>> =>
          /\ (ExtractCalls # <<>> /\ ExtractCalls[1] = "classify_short")
               <=> ~LooksLikeClaim(claim_text)
          /\ (ExtractCalls # <<>> /\ ExtractCalls[Len(ExtractCalls)] = "extract")
               <=> (LooksLikeClaim(claim_text) \/ (short.set /\ short.is_claim))
          /\ LooksLikeClaim(claim_text) => ExtractCalls = <<"extract">>
          /\ (short.set /\ ~short.is_claim) => ExtractCalls = <<"classify_short">>
          /\ (short.set /\ short.is_claim)
               => ExtractCalls = <<"classify_short", "extract">>

\* C14, its case: a document request made its three calls and returned.
C14_Witness ==
  /\ op = "normalize_document_text" /\ arg = PyStr(Doc_Minutes)
  /\ calls = <<"summarize", "classify_short", "extract">>
  /\ short.set /\ short.is_claim /\ pc = "done"

====
